---- MODULE Spec2Model ----
(***************************************************************************)
(* Model of report_farm_streamlit.py: the farm report's scope resolution,  *)
(* scope-based aggregations, classifiers, usage summaries, trailing        *)
(* 12-month series and the report assembly (main).                         *)
(*                                                                         *)
(* The store (animals.db) is read-only for the program: every              *)
(* specification draws the tables and the current date in Init and its     *)
(* actions are the program's operations, which leave their arguments (and  *)
(* whether the store raised), return value and st.error reports in call,   *)
(* ret and st_errors, and the classifiers' local animal_id in animal_id.   *)
(* unclosed counts the connections the operation opened with               *)
(* sqlite3.connect and did not pass to conn.close() before it ended.       *)
(*                                                                         *)
(* Encodings.  A nullable SQL number or text is a sequence of length at    *)
(* most one (<<>> is NULL).  A date text "YYYY-MM-DD" is a record          *)
(* [kind, y, m, d]; kind also tells NULL, '', blank and other text apart.  *)
(* A Python date is its proleptic Gregorian ordinal.  Ear tags are         *)
(* numbers ordered as their texts are, 0 standing for the empty text.      *)
(***************************************************************************)
EXTENDS Integers, Sequences, FiniteSets, TLC

VARIABLES animals, issue, repro, lactation, milk_yield, today,
          call, ret, st_errors, unclosed, animal_id, pc

vars == <<animals, issue, repro, lactation, milk_yield, today,
          call, ret, st_errors, unclosed, animal_id, pc>>

store == <<animals, issue, repro, lactation, milk_yield, today>>

(***************************************************************************)
(* Bounds of the model.                                                    *)
(***************************************************************************)
MaxAnimals == 2
MaxEvents == 2
MaxMilk == 2
MaxRepro == 2
MaxLactation == 2
MaxSireRecords == 3

(***************************************************************************)
(* Generic helpers.                                                        *)
(***************************************************************************)
\* The subsets of S with at most k elements.
RECURSIVE KSubsets(_, _)
KSubsets(S, k) ==
    IF k = 0 THEN {{}}
    ELSE LET prev == KSubsets(S, k - 1)
         IN  prev \cup {p \cup {x} : p \in prev, x \in S}

\* n copies of x.
RECURSIVE Repeat(_, _)
Repeat(x, n) == IF n = 0 THEN <<>> ELSE <<x>> \o Repeat(x, n - 1)

SeqToSet(s) == {s[i] : i \in 1..Len(s)}

NULL == <<>>
IsNull(v) == v = <<>>

(***************************************************************************)
(* The calendar: datetime.date ordinals, strptime and strftime.            *)
(***************************************************************************)
IsLeap(y) == (y % 4 = 0) /\ ((y % 100 # 0) \/ (y % 400 = 0))

DaysInMonth(y, m) ==
    IF m = 2 THEN (IF IsLeap(y) THEN 29 ELSE 28)
    ELSE IF m \in {4, 6, 9, 11} THEN 30 ELSE 31

DaysBeforeYear(y) ==
    (y - 1) * 365 + ((y - 1) \div 4) - ((y - 1) \div 100) + ((y - 1) \div 400)

RECURSIVE DaysBeforeMonth(_, _)
DaysBeforeMonth(y, m) ==
    IF m = 1 THEN 0 ELSE DaysBeforeMonth(y, m - 1) + DaysInMonth(y, m - 1)

\* date(y, m, d).toordinal()
Ordinal(y, m, d) == DaysBeforeYear(y) + DaysBeforeMonth(y, m) + d

\* date.fromordinal(n): the year and month of day n, as strftime("%Y-%m")
\* prints them.
YearOf(n) ==
    LET g == (n * 400) \div 146097
    IN  CHOOSE y \in g..(g + 2) :
            DaysBeforeYear(y) < n /\ n <= DaysBeforeYear(y + 1)

MonthOf(n) ==
    LET y == YearOf(n)
        r == n - DaysBeforeYear(y)
    IN  CHOOSE m \in 1..12 :
            DaysBeforeMonth(y, m) < r /\ r <= DaysBeforeMonth(y, m) + DaysInMonth(y, m)

DayOf(n) == n - DaysBeforeYear(YearOf(n)) - DaysBeforeMonth(YearOf(n), MonthOf(n))

\* strftime("%Y-%m"): the label "YYYY-MM" is the pair of its fields.
StrfYearMonth(n) == <<YearOf(n), MonthOf(n)>>

\* Date texts.
NullText == [kind |-> "null", y |-> 0, m |-> 0, d |-> 0]
EmptyText == [kind |-> "empty", y |-> 0, m |-> 0, d |-> 0]
BlankText == [kind |-> "blank", y |-> 0, m |-> 0, d |-> 0]
JunkText == [kind |-> "junk", y |-> 0, m |-> 0, d |-> 0]
DateText(y, m, d) == [kind |-> "date", y |-> y, m |-> m, d |-> d]

\* strftime("%Y-%m-%d") of an ordinal.
StrfDate(n) == DateText(YearOf(n), MonthOf(n), DayOf(n))

\* Python truthiness of a text, and of a text after strip().
Truthy(t) == t.kind \notin {"null", "empty"}
StripTruthy(t) == t.kind \notin {"null", "empty", "blank"}

\* datetime.strptime(t, "%Y-%m-%d") succeeds.
StrptimeOk(t) ==
    /\ t.kind = "date"
    /\ t.y >= 1
    /\ t.m \in 1..12
    /\ t.d >= 1 /\ t.d <= DaysInMonth(t.y, t.m)

\* datetime.strptime(t, "%Y-%m-%d").date(), as an ordinal.
Strptime(t) == Ordinal(t.y, t.m, t.d)

\* SQLite's text comparison a >= b of two zero-padded date texts (NULL and
\* non-date operands are kept out of the compared columns by Init).
DateTextGeq(a, b) ==
    \/ a.y > b.y
    \/ a.y = b.y /\ a.m > b.m
    \/ a.y = b.y /\ a.m = b.m /\ a.d >= b.d

(***************************************************************************)
(* The store's domains.                                                    *)
(***************************************************************************)
Farms == {"Sunrise", "Valley"}
EarTags == {0, 1, 2}
StatusOptions == {"owned", "Sell", "Dead", "Cull", "Total"}
EventStatuses == {NULL, <<"owned">>, <<"Sell">>, <<"Dead">>}
EventDates == {DateText(2023, 12, 1), DateText(2024, 1, 10)}
Genders == {"F", "Bull"}

\* animals.id of the animal of a farm with an ear tag (ids are unique).
FarmIndex(f) == IF f = "Sunrise" THEN 0 ELSE 1
AnimalId(f, t) == FarmIndex(f) * Cardinality(EarTags) + t + 1
AnimalIds == {AnimalId(f, t) : f \in Farms, t \in EarTags}

Animal(f, t, g, b) ==
    [id |-> AnimalId(f, t), farm_name |-> f, ear_tag |-> t, gender |-> g,
     birth_date |-> b]

\* Ear tags are unique within a farm.
UniqueTags(A) ==
    \A a, b \in A : (a.farm_name = b.farm_name /\ a.ear_tag = b.ear_tag) => a = b

AnimalTables(rows) == {A \in KSubsets(rows, MaxAnimals) : UniqueTags(A)}

IssueRows ==
    [farm_name : Farms, ear_tag : EarTags \ {0}, event_status : EventStatuses,
     event_date : EventDates]

(***************************************************************************)
(* Connections.  Every operation that reads the store runs                 *)
(*     try: conn = sqlite3.connect(DB_PATH); ...; conn.close(); return ... *)
(*     except Exception as e: st.error(...); return default                *)
(* with no finally and no context manager.  Each name in an operation's    *)
(* error reports is one try block that raised: at sqlite3.connect, which   *)
(* leaves no connection, or at a later statement, which skips conn.close().*)
(***************************************************************************)
UnclosedAfter(errs) == 0..Cardinality(errs)

\* The reports that come from a store error: compute_animal_category also
\* reports the ValueError of period.split("~"), raised after conn.close().
StoreErrors(fault, errs) == IF fault THEN errs ELSE {}

(***************************************************************************)
(* get_filtered_ear_tags, get_total_animals_filtered                       *)
(***************************************************************************)
Coalesce(v, default) == IF IsNull(v) THEN default ELSE v[1]

\* The issue rows the LEFT JOIN pairs with animal a.
JoinedEvents(a) ==
    {i \in issue : a.farm_name = i.farm_name /\ a.ear_tag = i.ear_tag}

\* The number of result rows animal a contributes to the status query: one
\* per joined issue row that passes the WHERE clause, or the single
\* NULL-extended row when no issue row joins.
StatusRowCount(a, status) ==
    IF JoinedEvents(a) = {}
    THEN (IF Coalesce(NULL, "owned") = status THEN 1 ELSE 0)
    ELSE Cardinality({i \in JoinedEvents(a) :
                         Coalesce(i.event_status, "owned") = status})

\* The status query: the ear tags of its rows in ORDER BY a.ear_tag order.
RECURSIVE StatusQueryRows(_, _)
StatusQueryRows(A, status) ==
    IF A = {} THEN <<>>
    ELSE LET a == CHOOSE x \in A : \A z \in A : x.ear_tag <= z.ear_tag
         IN  Repeat(a.ear_tag, StatusRowCount(a, status))
                 \o StatusQueryRows(A \ {a}, status)

StatusQuery_NoFarmFilter(farm, status) == StatusQueryRows(animals, status)

StatusQuery(farm, status) ==
    StatusQueryRows({a \in animals : a.farm_name = farm}, status)

\* The "Total" query: one row per animal of the farm, in ear tag order.
RECURSIVE TotalQueryRows(_)
TotalQueryRows(A) ==
    IF A = {} THEN <<>>
    ELSE LET a == CHOOSE x \in A : \A z \in A : x.ear_tag <= z.ear_tag
         IN  <<a.ear_tag>> \o TotalQueryRows(A \ {a})

TotalQuery(farm) == TotalQueryRows({a \in animals : a.farm_name = farm})

\* [row[0] for row in rows if row[0]]
DropEmpty(s) == SelectSeq(s, LAMBDA t : t # 0)

\* fault: the store raises inside the try block.
get_filtered_ear_tags(farm, status, fault) ==
    IF fault
    THEN [val |-> <<>>, errs |-> {"get_filtered_ear_tags"}]
    ELSE [val |-> DropEmpty(IF status # "Total" THEN StatusQuery(farm, status)
                            ELSE TotalQuery(farm)),
          errs |-> {}]

get_total_animals_filtered(farm, status, fault) ==
    LET r == get_filtered_ear_tags(farm, status, fault)
    IN  [val |-> Len(r.val), errs |-> r.errs]

(***************************************************************************)
(* Scope-based aggregations.  f1 is a store fault while the scope is       *)
(* resolved, f2 one inside the aggregation's own try block.                *)
(***************************************************************************)
\* milk_yield rows WHERE ear_tag IN (ear_tags)
MilkIn(ear_tags) == {r \in milk_yield : r.ear_tag \in SeqToSet(ear_tags)}

RECURSIVE SumYield(_)
SumYield(R) ==
    IF R = {} THEN 0
    ELSE LET r == CHOOSE x \in R : TRUE
         IN  r.yield_value[1] + SumYield(R \ {r})

\* SUM(yield_value): NULL when no row holds a value.
SqlSum(R) ==
    LET valued == {r \in R : ~IsNull(r.yield_value)}
    IN  IF valued = {} THEN NULL ELSE <<SumYield(valued)>>

\* row[0] if row and row[0] is not None else default
OrDefault(v, default) == IF IsNull(v) THEN default ELSE v[1]

EmptyScopeReturns_Never(ear_tags) == FALSE

\* if not ear_tags: return default
EmptyScopeReturns(ear_tags) == ear_tags = <<>>

\* The shape every scope-based aggregation shares: resolve the scope, return
\* the default on an empty scope, else query inside try/except.
Aggregate(name, farm, status, f1, f2, default, value(_)) ==
    LET t == get_filtered_ear_tags(farm, status, f1)
    IN  IF EmptyScopeReturns(t.val) THEN [val |-> default, errs |-> t.errs]
        ELSE IF f2 THEN [val |-> default, errs |-> t.errs \cup {name}]
        ELSE [val |-> value(t.val), errs |-> t.errs]

get_farm_total_milk_yield_filtered(farm, status, f1, f2) ==
    LET value(ear_tags) == OrDefault(SqlSum(MilkIn(ear_tags)), 0)
    IN  Aggregate("get_farm_total_milk_yield_filtered", farm, status, f1, f2,
                  0, value)

\* COUNT(DISTINCT record_date): NULL dates are not counted.
get_farm_total_lactation_days_filtered(farm, status, f1, f2) ==
    LET value(ear_tags) ==
            Cardinality({r.record_date : r \in MilkIn(ear_tags)} \ {NullText})
    IN  Aggregate("get_farm_total_lactation_days_filtered", farm, status, f1, f2,
                  0, value)

\* GROUP BY record_year, then rows.sort(key=lambda x: x[0]).
RECURSIVE SortedYearRows(_, _)
SortedYearRows(years, R) ==
    IF years = {} THEN <<>>
    ELSE LET y == CHOOSE x \in years : \A z \in years : x <= z
         IN  <<<<y, SqlSum({r \in R : r.record_year = y})>>>>
                 \o SortedYearRows(years \ {y}, R)

get_farm_milk_yield_by_year_filtered(farm, status, f1, f2) ==
    LET value(ear_tags) ==
            SortedYearRows({r.record_year : r \in MilkIn(ear_tags)}, MilkIn(ear_tags))
    IN  Aggregate("get_farm_milk_yield_by_year_filtered", farm, status, f1, f2,
                  <<>>, value)

\* lower(delivery_status)
Lower(v) ==
    IF IsNull(v) THEN NULL
    ELSE IF v[1] \in {"Abortion", "ABORTION"} THEN <<"abortion">> ELSE v

\* SELECT id FROM animals WHERE ear_tag IN (ear_tags)
IdsOfTags(ear_tags) == {a.id : a \in {x \in animals : x.ear_tag \in SeqToSet(ear_tags)}}

get_farm_abortion_count_filtered(farm, status, f1, f2) ==
    LET value(ear_tags) ==
            Cardinality({r \in repro : /\ r.animal_id \in IdsOfTags(ear_tags)
                                        /\ Lower(r.delivery_status) = <<"abortion">>})
    IN  Aggregate("get_farm_abortion_count_filtered", farm, status, f1, f2,
                  0, value)

(***************************************************************************)
(* get_heifer_count, get_bull_count                                        *)
(***************************************************************************)
AgeUnder24Months_Inclusive(days) == 2 * days <= 24 * 61

\* age_months = days / 30.5; age_months < 24  (30.5 = 61/2, and the float
\* quotient is exact at the boundary: 732 / 30.5 = 24.0)
AgeUnder24Months(days) == 2 * days < 24 * 61

\* The loop body: whether the row's animal is counted.
HeiferRowCounts(birth_date_str) ==
    /\ Truthy(birth_date_str)
    /\ StripTruthy(birth_date_str)
    /\ StrptimeOk(birth_date_str)
    /\ AgeUnder24Months(today - Strptime(birth_date_str))

get_heifer_count(farm, fault) ==
    IF fault THEN [val |-> 0, errs |-> {"get_heifer_count"}]
    ELSE [val |-> Cardinality({a \in animals :
                                  /\ a.farm_name = farm
                                  /\ a.gender = "F"
                                  /\ HeiferRowCounts(a.birth_date)}),
          errs |-> {}]

get_bull_count(farm, fault) ==
    IF fault THEN [val |-> 0, errs |-> {"get_bull_count"}]
    ELSE [val |-> Cardinality({a \in animals :
                                  a.farm_name = farm /\ a.gender = "Bull"}),
          errs |-> {}]

(***************************************************************************)
(* compute_breeding_diagnosis                                              *)
(***************************************************************************)
\* str.strip() of the texts the store holds.
Strip(t) ==
    IF t = " " THEN ""
    ELSE IF t = " 임신" THEN "임신"
    ELSE t

\* SELECT ... FROM animals WHERE ear_tag=?  (no farm in the condition)
AnimalsWithTag(ear_tag) == {a \in animals : a.ear_tag = ear_tag}

ReproOf(id) == {r \in repro : r.animal_id = id}

\* ORDER BY breeding_date DESC LIMIT 1: the rows fetchone() may return.
LatestRepro_Oldest(id) ==
    {r \in ReproOf(id) :
        \A k \in ReproOf(id) : DateTextGeq(k.breeding_date, r.breeding_date)}

LatestRepro(id) ==
    {r \in ReproOf(id) :
        \A k \in ReproOf(id) : DateTextGeq(r.breeding_date, k.breeding_date)}

\* The classification of the fetched repro row.
DiagnoseRecord(r) ==
    IF ~IsNull(r.calving_date) /\ r.calving_date[1] # ""
          /\ Strip(r.calving_date[1]) # ""
    THEN "Open"
    ELSE IF ~IsNull(r.pregnancy_status) /\ r.pregnancy_status[1] # ""
               /\ Strip(r.pregnancy_status[1]) = "임신"
    THEN "Pregnant"
    ELSE "Mating"

\* The outcomes of compute_breeding_diagnosis(ear_tag): fetchone() returns
\* any of the rows the query leaves unordered.
compute_breeding_diagnosis(ear_tag, fault) ==
    IF fault
    THEN {[val |-> "Open", errs |-> {"compute_breeding_diagnosis"}, id |-> 0]}
    ELSE IF AnimalsWithTag(ear_tag) = {}
    THEN {[val |-> "Open", errs |-> {}, id |-> 0]}
    ELSE UNION {
        IF a.gender # "F"
        THEN {[val |-> "Open", errs |-> {}, id |-> a.id]}
        ELSE IF ReproOf(a.id) = {}
        THEN {[val |-> "Mating", errs |-> {}, id |-> a.id]}
        ELSE {[val |-> DiagnoseRecord(r), errs |-> {}, id |-> a.id] :
                 r \in LatestRepro(a.id)}
        : a \in AnimalsWithTag(ear_tag)}

(***************************************************************************)
(* compute_animal_category                                                 *)
(*                                                                         *)
(* A period text is the sequence of its pieces: date texts, the separator  *)
(* "~" and other text.                                                     *)
(***************************************************************************)
SepText == [kind |-> "sep", y |-> 0, m |-> 0, d |-> 0]

\* SQLite's text order on pieces: digits sort before letters, and both
\* before "~".
PieceRank(x) == IF x.kind = "date" THEN 0 ELSE IF x.kind = "sep" THEN 2 ELSE 1

PieceLess(a, b) ==
    \/ PieceRank(a) < PieceRank(b)
    \/ /\ a.kind = "date" /\ b.kind = "date"
       /\ a # b
       /\ DateTextGeq(b, a)

RECURSIVE TextLeq(_, _)
TextLeq(s, t) ==
    IF s = <<>> THEN TRUE
    ELSE IF t = <<>> THEN FALSE
    ELSE IF Head(s) = Head(t) THEN TextLeq(Tail(s), Tail(t))
    ELSE PieceLess(Head(s), Head(t))

\* ORDER BY on a nullable text: NULL sorts before every text.
PeriodLeq(p, q) == IsNull(p) \/ (~IsNull(q) /\ TextLeq(p[1], q[1]))

LactationOf(id) == {l \in lactation : l.animal_id = id}

\* ORDER BY period DESC LIMIT 1 (rows of equal period are the same text).
MaxPeriod(id) ==
    LET P == {l.period : l \in LactationOf(id)}
    IN  CHOOSE p \in P : \A q \in P : PeriodLeq(q, p)

\* period.split("~"): the number of parts, and the last part.
SepCount(t) == Cardinality({i \in 1..Len(t) : t[i] = SepText})

LastPart(t) ==
    LET k == CHOOSE i \in 1..Len(t) :
                 t[i] = SepText /\ \A j \in (i + 1)..Len(t) : t[j] # SepText
    IN  SubSeq(t, k + 1, Len(t))

\* "Milking" if gap <= 10 else "Dry"
GapCategory_Strict(gap) == IF gap < 10 THEN "Milking" ELSE "Dry"

GapCategory(gap) == IF gap <= 10 THEN "Milking" ELSE "Dry"

\* The category of a fetched period text, and whether the unpacking of
\* split("~") raised (the outer except reports it).
CategorizePeriod(p) ==
    IF IsNull(p) \/ p[1] = <<>> THEN [val |-> "Fattening", raised |-> FALSE]
    ELSE IF SepCount(p[1]) = 0 THEN [val |-> "Fattening", raised |-> FALSE]
    ELSE IF SepCount(p[1]) # 1 THEN [val |-> "Fattening", raised |-> TRUE]
    ELSE LET end_str == LastPart(p[1])
         IN  IF Len(end_str) = 1 /\ StrptimeOk(end_str[1])
             THEN [val |-> GapCategory(today - Strptime(end_str[1])),
                   raised |-> FALSE]
             ELSE [val |-> "Fattening", raised |-> FALSE]

compute_animal_category(ear_tag, fault) ==
    IF fault
    THEN {[val |-> "Fattening", errs |-> {"compute_animal_category"}, id |-> 0]}
    ELSE IF AnimalsWithTag(ear_tag) = {}
    THEN {[val |-> "Fattening", errs |-> {}, id |-> 0]}
    ELSE {IF LactationOf(a.id) = {}
          THEN [val |-> "Fattening", errs |-> {}, id |-> a.id]
          ELSE LET c == CategorizePeriod(MaxPeriod(a.id))
               IN  [val |-> c.val,
                    errs |-> IF c.raised THEN {"compute_animal_category"} ELSE {},
                    id |-> a.id]
          : a \in AnimalsWithTag(ear_tag)}

(***************************************************************************)
(* get_top_sire_3y                                                         *)
(***************************************************************************)
\* (date.today() - timedelta(days=3*365)).strftime("%Y-%m-%d")
ThreeYearsAgo == StrfDate(today - 3 * 365)

\* WHERE breeding_date >= ?   (a NULL breeding_date never compares true)
ReproSince(since) ==
    {r \in repro : r.breeding_date.kind = "date" /\ DateTextGeq(r.breeding_date, since)}

\* GROUP BY bull_name with COUNT(*): NULL is a group of its own.
SireGroups(R) ==
    {[bull_name |-> b, times |-> Cardinality({r \in R : r.bull_name = b})] :
        b \in {r.bull_name : r \in R}}

\* ORDER BY COUNT(*) DESC LIMIT 1: the rows fetchone() may return.
TopGroups(G) == {g \in G : \A h \in G : h.times <= g.times}

NoData == [bull_name |-> NULL, times |-> 0]

\* f"{row[0]} ({row[1]} times)" if row and row[0] else "-": the formatted
\* text is the pair of its fields, "-" is NoData.
FormatTopSire(row) ==
    IF ~IsNull(row.bull_name) /\ row.bull_name[1] # "" THEN row ELSE NoData

get_top_sire_3y(fault) ==
    IF fault THEN {[val |-> NoData, errs |-> {"get_top_sire_3y"}]}
    ELSE IF ReproSince(ThreeYearsAgo) = {} THEN {[val |-> NoData, errs |-> {}]}
    ELSE {[val |-> FormatTopSire(g), errs |-> {}] :
             g \in TopGroups(SireGroups(ReproSince(ThreeYearsAgo)))}

(***************************************************************************)
(* get_top3_sire_usage_3y, get_average_parity, get_highest_parity_cow,     *)
(* get_frequent_abortion_cow                                               *)
(***************************************************************************)
Min(a, b) == IF a <= b THEN a ELSE b

\* ORDER BY cnt DESC LIMIT 3: the row sequences fetchall() may return.
Top3Rows(G) ==
    LET k == Min(3, Cardinality(G))
    IN  {q \in [1..k -> G] :
            /\ \A i, j \in 1..k : i < j => (q[i] # q[j] /\ q[i].times >= q[j].times)
            /\ \A g \in G : (\A i \in 1..k : q[i] # g) =>
                                 \A i \in 1..k : g.times <= q[i].times}

IsNamed(row) == ~IsNull(row.bull_name) /\ row.bull_name[1] # ""

\* "\n".join(... for row in rows if row[0]) if rows else "-": the joined
\* text is the sequence of its lines.
get_top3_sire_usage_3y(fault) ==
    IF fault
    THEN {[val |-> [nodata |-> TRUE, lines |-> <<>>],
           errs |-> {"get_top3_sire_usage_3y"}]}
    ELSE IF ReproSince(ThreeYearsAgo) = {}
    THEN {[val |-> [nodata |-> TRUE, lines |-> <<>>], errs |-> {}]}
    ELSE {[val |-> [nodata |-> FALSE, lines |-> SelectSeq(q, IsNamed)],
           errs |-> {}] :
             q \in Top3Rows(SireGroups(ReproSince(ThreeYearsAgo)))}

\* repro JOIN animals WHERE a.gender='F' AND r.parity IS NOT NULL
FemaleParityRows ==
    {x \in [a : {y \in animals : y.gender = "F"},
             r : {y \in repro : ~IsNull(y.parity)}] : x.r.animal_id = x.a.id}

RECURSIVE SumParity(_, _)
SumParity(ids, pick) ==
    IF ids = {} THEN 0
    ELSE LET i == CHOOSE x \in ids : TRUE
         IN  pick[i].r.parity[1] + SumParity(ids \ {i}, pick)

\* f"{avg:.1f}": the text is its value in tenths (no average of at most
\* three samples lies half-way between two tenths).
FormatTenths(sum, n) == (20 * sum + n) \div (2 * n)

\* GROUP BY a.id with the bare column r.parity: SQLite takes the parity of
\* any one row of each group.  A zero average is falsy: "-".
get_average_parity(fault) ==
    IF fault
    THEN {[val |-> [nodata |-> TRUE, tenths |-> 0], errs |-> {"get_average_parity"}]}
    ELSE LET ids == {x.a.id : x \in FemaleParityRows}
             picks == {f \in [ids -> FemaleParityRows] :
                          \A i \in ids : f[i].a.id = i}
         IN  IF ids = {}
             THEN {[val |-> [nodata |-> TRUE, tenths |-> 0], errs |-> {}]}
             ELSE {LET sum == SumParity(ids, f)
                   IN  IF sum = 0
                       THEN [val |-> [nodata |-> TRUE, tenths |-> 0], errs |-> {}]
                       ELSE [val |-> [nodata |-> FALSE,
                                      tenths |-> FormatTenths(sum, Cardinality(ids))],
                             errs |-> {}]
                   : f \in picks}

NoCow == [nodata |-> TRUE, ear_tag |-> 0, n |-> 0]

\* ORDER BY r.parity DESC LIMIT 1
get_highest_parity_cow(fault) ==
    IF fault THEN {[val |-> NoCow, errs |-> {"get_highest_parity_cow"}]}
    ELSE IF FemaleParityRows = {} THEN {[val |-> NoCow, errs |-> {}]}
    ELSE {[val |-> [nodata |-> FALSE, ear_tag |-> x.a.ear_tag, n |-> x.r.parity[1]],
           errs |-> {}] :
             x \in {y \in FemaleParityRows :
                        \A z \in FemaleParityRows : z.r.parity[1] <= y.r.parity[1]}}

\* The abortions of animal a since three_years_ago.
RecentAbortions(a) ==
    {r \in ReproSince(ThreeYearsAgo) :
        r.animal_id = a.id /\ Lower(r.delivery_status) = <<"abortion">>}

\* GROUP BY a.id HAVING cnt >= 3 ORDER BY cnt DESC LIMIT 1
get_frequent_abortion_cow(fault) ==
    LET G == {a \in animals : Cardinality(RecentAbortions(a)) >= 3}
    IN  IF fault THEN {[val |-> NoCow, errs |-> {"get_frequent_abortion_cow"}]}
        ELSE IF G = {} THEN {[val |-> NoCow, errs |-> {}]}
        ELSE {[val |-> [nodata |-> FALSE, ear_tag |-> a.ear_tag,
                        n |-> Cardinality(RecentAbortions(a))],
               errs |-> {}] :
                 a \in {x \in G : \A z \in G : Cardinality(RecentAbortions(z))
                                                    <= Cardinality(RecentAbortions(x))}}

(***************************************************************************)
(* get_recent_births_count, get_recent_calf_tags, get_issue_count          *)
(***************************************************************************)
\* SQLite's date('now', '-3 months'): the month goes back by three and a day
\* past the end of the month it lands in runs over into the next one.
ThreeMonthsAgo ==
    LET y == YearOf(today)
        m == MonthOf(today)
        d == DayOf(today)
        y3 == IF m > 3 THEN y ELSE y - 1
        m3 == IF m > 3 THEN m - 3 ELSE m + 9
    IN  StrfDate(Ordinal(y3, m3, 1) + d - 1)

\* delivery_status = 'Delivery' AND breeding_date BETWEEN
\* date('now', '-3 months') AND date('now')
RecentDeliveries ==
    {r \in repro :
        /\ r.delivery_status = <<"Delivery">>
        /\ r.breeding_date.kind = "date"
        /\ DateTextGeq(r.breeding_date, ThreeMonthsAgo)
        /\ DateTextGeq(StrfDate(today), r.breeding_date)}

get_recent_births_count(fault) ==
    IF fault THEN [val |-> 0, errs |-> {"get_recent_births_count"}]
    ELSE [val |-> Cardinality(RecentDeliveries), errs |-> {}]

\* The calf tags are kept as the set of the rows' texts.
get_recent_calf_tags(fault) ==
    IF fault THEN [val |-> {}, errs |-> {"get_recent_calf_tags"}]
    ELSE [val |-> {r.calf_tag_number[1] :
                      r \in {x \in RecentDeliveries :
                                 /\ ~IsNull(x.calf_tag_number)
                                 /\ x.calf_tag_number[1] # ""}},
          errs |-> {}]

\* event_date BETWEEN datetime('now', '-3 months') AND datetime('now'): a
\* date-only text sorts before every date-and-time text of its own day.
get_issue_count(status_value, fault) ==
    IF fault THEN [val |-> 0, errs |-> {"get_issue_count"}]
    ELSE [val |-> Cardinality({i \in issue :
                                  /\ i.event_status = <<status_value>>
                                  /\ i.event_date # ThreeMonthsAgo
                                  /\ DateTextGeq(i.event_date, ThreeMonthsAgo)
                                  /\ DateTextGeq(StrfDate(today), i.event_date)}),
          errs |-> {}]

(***************************************************************************)
(* generate_breeding_diagnosis_bar_chart, generate_category_bar_chart      *)
(***************************************************************************)
NoFigure == [kind |-> "None"]

\* diag_distribution[...] += 1 over the ear tags: the distributions and
\* error reports the loop may end with (each call may meet a store fault).
RECURSIVE DiagnosisDistributions(_)
DiagnosisDistributions(ear_tags) ==
    IF ear_tags = <<>>
    THEN {[dist |-> [c \in {"Open", "Pregnant", "Mating"} |-> 0], errs |-> {},
           unclosed |-> 0]}
    ELSE UNION {
           {[dist |-> [rest.dist EXCEPT ![o.val] = @ + 1],
             errs |-> rest.errs \cup o.errs,
             unclosed |-> rest.unclosed + u] : u \in UnclosedAfter(o.errs)} :
             o \in compute_breeding_diagnosis(Head(ear_tags), TRUE)
                      \cup compute_breeding_diagnosis(Head(ear_tags), FALSE),
             rest \in DiagnosisDistributions(Tail(ear_tags))}

generate_breeding_diagnosis_bar_chart(farm, status, f1) ==
    LET t == get_filtered_ear_tags(farm, status, f1)
    IN  IF t.val = <<>>
        THEN {[val |-> NoFigure, errs |-> t.errs, unclosed |-> u] :
                 u \in UnclosedAfter(t.errs)}
        ELSE {[val |-> [kind |-> "fig", dist |-> x.dist], errs |-> x.errs,
               unclosed |-> x.unclosed] :
                 x \in DiagnosisDistributions(t.val)}

RECURSIVE CategoryDistributions(_)
CategoryDistributions(ear_tags) ==
    IF ear_tags = <<>>
    THEN {[dist |-> [c \in {"Fattening", "Milking", "Dry"} |-> 0], errs |-> {},
           unclosed |-> 0]}
    ELSE UNION {
           {[dist |-> [rest.dist EXCEPT ![fo[2].val] = @ + 1],
             errs |-> rest.errs \cup fo[2].errs,
             unclosed |-> rest.unclosed + u] :
                u \in UnclosedAfter(StoreErrors(fo[1], fo[2].errs))} :
             fo \in {<<TRUE, o>> : o \in compute_animal_category(Head(ear_tags), TRUE)}
                       \cup {<<FALSE, o>> :
                                o \in compute_animal_category(Head(ear_tags), FALSE)},
             rest \in CategoryDistributions(Tail(ear_tags))}

generate_category_bar_chart(farm, status, f1) ==
    LET t == get_filtered_ear_tags(farm, status, f1)
    IN  IF t.val = <<>>
        THEN {[val |-> NoFigure, errs |-> t.errs, unclosed |-> u] :
                 u \in UnclosedAfter(t.errs)}
        ELSE {[val |-> [kind |-> "fig", dist |-> x.dist], errs |-> x.errs,
               unclosed |-> x.unclosed] :
                 x \in CategoryDistributions(t.val)}

(***************************************************************************)
(* plot_farm_milk_yield_trend_filtered                                     *)
(***************************************************************************)
\* WHERE ear_tag IN (ear_tags) AND record_date >= start_date_str
TrendRows(ear_tags) ==
    {r \in MilkIn(ear_tags) :
        /\ r.record_date.kind = "date"
        /\ DateTextGeq(r.record_date, StrfDate(today - 365))}

\* strftime('%Y-%m', record_date)
MonthOfRecord(r) == <<r.record_date.y, r.record_date.m>>

\* data = {m: total for m, total in rows}, of the rows grouped by month.
TrendData(ear_tags) ==
    [mth \in {MonthOfRecord(r) : r \in TrendRows(ear_tags)} |->
        SqlSum({r \in TrendRows(ear_tags) : MonthOfRecord(r) = mth})]

\* months[i]: (today - timedelta(days=(11 - i) * 30)).strftime("%Y-%m"),
\* for the list index i + 1.
MonthLabel(k) == StrfYearMonth(today - (12 - k) * 30)

Months == [k \in 1..12 |-> MonthLabel(k)]

\* values[idx]: 0, or data[m] (None when the month's SUM is NULL).
Values(data) ==
    [k \in 1..12 |-> IF Months[k] \in DOMAIN data THEN data[Months[k]] ELSE <<0>>]

\* max(values) and int(round(y)) raise TypeError on a None among the values,
\* outside every try block.
RenderRaises(values) == \E k \in 1..12 : IsNull(values[k])

plot_farm_milk_yield_trend_filtered(farm, status, f1, f2) ==
    LET t == get_filtered_ear_tags(farm, status, f1)
    IN  IF t.val = <<>> THEN [val |-> NoFigure, errs |-> t.errs]
        ELSE IF f2
        THEN [val |-> NoFigure,
              errs |-> t.errs \cup {"plot_farm_milk_yield_trend_filtered"}]
        ELSE LET values == Values(TrendData(t.val))
             IN  [val |-> [kind |-> IF RenderRaises(values) THEN "raise" ELSE "fig",
                           months |-> Months, values |-> values],
                  errs |-> t.errs]

(***************************************************************************)
(* Operations as actions.                                                  *)
(***************************************************************************)
NoCall == [op |-> "none", farm |-> "", status |-> "", ear_tag |-> 0, faults |-> <<>>]
Call(op, farm, status, tag, faults) ==
    [op |-> op, farm |-> farm, status |-> status, ear_tag |-> tag, faults |-> faults]

\* An action is one invocation of an operation, run to its return.
CallGetFilteredEarTags ==
    /\ pc = "idle"
    /\ \E farm \in Farms, status \in StatusOptions, fault \in BOOLEAN :
        LET r == get_filtered_ear_tags(farm, status, fault)
        IN  /\ call' = Call("get_filtered_ear_tags", farm, status, 0, <<fault>>)
            /\ ret' = r.val
            /\ st_errors' = r.errs
            /\ unclosed' \in UnclosedAfter(r.errs)
            /\ animal_id' = 0
    /\ pc' = "returned"
    /\ UNCHANGED store

CallGetTotalAnimalsFiltered ==
    /\ pc = "idle"
    /\ \E farm \in Farms, status \in StatusOptions, fault \in BOOLEAN :
        LET r == get_total_animals_filtered(farm, status, fault)
        IN  /\ call' = Call("get_total_animals_filtered", farm, status, 0, <<fault>>)
            /\ ret' = r.val
            /\ st_errors' = r.errs
            /\ unclosed' \in UnclosedAfter(r.errs)
            /\ animal_id' = 0
    /\ pc' = "returned"
    /\ UNCHANGED store

CallTotalMilkYield ==
    /\ pc = "idle"
    /\ \E farm \in Farms, status \in StatusOptions, f1, f2 \in BOOLEAN :
        LET r == get_farm_total_milk_yield_filtered(farm, status, f1, f2)
        IN  /\ call' = Call("get_farm_total_milk_yield_filtered", farm, status, 0, <<f1, f2>>)
            /\ ret' = r.val
            /\ st_errors' = r.errs
            /\ unclosed' \in UnclosedAfter(r.errs)
            /\ animal_id' = 0
    /\ pc' = "returned"
    /\ UNCHANGED store

CallTotalLactationDays ==
    /\ pc = "idle"
    /\ \E farm \in Farms, status \in StatusOptions, f1, f2 \in BOOLEAN :
        LET r == get_farm_total_lactation_days_filtered(farm, status, f1, f2)
        IN  /\ call' = Call("get_farm_total_lactation_days_filtered", farm, status, 0, <<f1, f2>>)
            /\ ret' = r.val
            /\ st_errors' = r.errs
            /\ unclosed' \in UnclosedAfter(r.errs)
            /\ animal_id' = 0
    /\ pc' = "returned"
    /\ UNCHANGED store

CallMilkYieldByYear ==
    /\ pc = "idle"
    /\ \E farm \in Farms, status \in StatusOptions, f1, f2 \in BOOLEAN :
        LET r == get_farm_milk_yield_by_year_filtered(farm, status, f1, f2)
        IN  /\ call' = Call("get_farm_milk_yield_by_year_filtered", farm, status, 0, <<f1, f2>>)
            /\ ret' = r.val
            /\ st_errors' = r.errs
            /\ unclosed' \in UnclosedAfter(r.errs)
            /\ animal_id' = 0
    /\ pc' = "returned"
    /\ UNCHANGED store

CallAbortionCount ==
    /\ pc = "idle"
    /\ \E farm \in Farms, status \in StatusOptions, f1, f2 \in BOOLEAN :
        LET r == get_farm_abortion_count_filtered(farm, status, f1, f2)
        IN  /\ call' = Call("get_farm_abortion_count_filtered", farm, status, 0, <<f1, f2>>)
            /\ ret' = r.val
            /\ st_errors' = r.errs
            /\ unclosed' \in UnclosedAfter(r.errs)
            /\ animal_id' = 0
    /\ pc' = "returned"
    /\ UNCHANGED store

CallComputeBreedingDiagnosis ==
    /\ pc = "idle"
    /\ \E ear_tag \in EarTags, fault \in BOOLEAN :
        \E r \in compute_breeding_diagnosis(ear_tag, fault) :
            /\ call' = Call("compute_breeding_diagnosis", "", "", ear_tag, <<fault>>)
            /\ ret' = r.val
            /\ st_errors' = r.errs
            /\ unclosed' \in UnclosedAfter(r.errs)
            /\ animal_id' = r.id
    /\ pc' = "returned"
    /\ UNCHANGED store

CallComputeAnimalCategory ==
    /\ pc = "idle"
    /\ \E ear_tag \in EarTags, fault \in BOOLEAN :
        \E r \in compute_animal_category(ear_tag, fault) :
            /\ call' = Call("compute_animal_category", "", "", ear_tag, <<fault>>)
            /\ ret' = r.val
            /\ st_errors' = r.errs
            /\ unclosed' \in UnclosedAfter(StoreErrors(fault, r.errs))
            /\ animal_id' = r.id
    /\ pc' = "returned"
    /\ UNCHANGED store

CallGetHeiferCount ==
    /\ pc = "idle"
    /\ \E farm \in Farms, fault \in BOOLEAN :
        LET r == get_heifer_count(farm, fault)
        IN  /\ call' = Call("get_heifer_count", farm, "", 0, <<fault>>)
            /\ ret' = r.val
            /\ st_errors' = r.errs
            /\ unclosed' \in UnclosedAfter(r.errs)
            /\ animal_id' = 0
    /\ pc' = "returned"
    /\ UNCHANGED store

CallGetBullCount ==
    /\ pc = "idle"
    /\ \E farm \in Farms, fault \in BOOLEAN :
        LET r == get_bull_count(farm, fault)
        IN  /\ call' = Call("get_bull_count", farm, "", 0, <<fault>>)
            /\ ret' = r.val
            /\ st_errors' = r.errs
            /\ unclosed' \in UnclosedAfter(r.errs)
            /\ animal_id' = 0
    /\ pc' = "returned"
    /\ UNCHANGED store

CallGetTopSire3y ==
    /\ pc = "idle"
    /\ \E fault \in BOOLEAN :
        \E r \in get_top_sire_3y(fault) :
            /\ call' = Call("get_top_sire_3y", "", "", 0, <<fault>>)
            /\ ret' = r.val
            /\ st_errors' = r.errs
            /\ unclosed' \in UnclosedAfter(r.errs)
            /\ animal_id' = 0
    /\ pc' = "returned"
    /\ UNCHANGED store

CallGetRecentBirthsCount ==
    /\ pc = "idle"
    /\ \E fault \in BOOLEAN :
        LET r == get_recent_births_count(fault)
        IN  /\ call' = Call("get_recent_births_count", "", "", 0, <<fault>>)
            /\ ret' = r.val
            /\ st_errors' = r.errs
            /\ unclosed' \in UnclosedAfter(r.errs)
            /\ animal_id' = 0
    /\ pc' = "returned"
    /\ UNCHANGED store

\* The call ends in "raised" when the TypeError leaves the function.
CallPlotMilkYieldTrend ==
    /\ pc = "idle"
    /\ \E farm \in Farms, status \in StatusOptions, f1, f2 \in BOOLEAN :
        LET r == plot_farm_milk_yield_trend_filtered(farm, status, f1, f2)
        IN  /\ call' = Call("plot_farm_milk_yield_trend_filtered", farm, status, 0,
                            <<f1, f2>>)
            /\ ret' = r.val
            /\ st_errors' = r.errs
            /\ unclosed' \in UnclosedAfter(r.errs)
            /\ animal_id' = 0
            /\ pc' = IF r.val.kind = "raise" THEN "raised" ELSE "returned"
    /\ UNCHANGED store

(***************************************************************************)
(* main: the report assembly, one action per statement that calls an       *)
(* operation.  pc names the variable main assigns next; call keeps the     *)
(* sidebar's selection and the operation last called.                      *)
(***************************************************************************)
SelectFarm == "Select Farm..."

\* SELECT DISTINCT farm_name FROM animals WHERE farm_name != ''
FarmsQuery == {a.farm_name : a \in animals} \ {""}

MainSelect ==
    /\ pc = "idle"
    /\ \E fault \in BOOLEAN :
        LET farms == IF fault THEN {} ELSE FarmsQuery
        IN  \E selected_farm \in {SelectFarm} \cup farms,
               selected_status \in StatusOptions :
                /\ call' = Call("main", selected_farm, selected_status, 0, <<fault>>)
                /\ st_errors' = IF fault THEN {"main"} ELSE {}
                /\ unclosed' \in UnclosedAfter(IF fault THEN {"main"} ELSE {})
                /\ pc' = IF selected_farm = SelectFarm THEN "done"
                                                       ELSE "total_animals"
    /\ ret' = <<>>
    /\ animal_id' = 0
    /\ UNCHANGED store

MainTotalAnimals ==
    /\ pc = "total_animals"
    /\ \E fault \in BOOLEAN :
        LET r == get_total_animals_filtered(call.farm, call.status, fault)
        IN  /\ call' = [call EXCEPT !.op = "get_total_animals_filtered", !.faults = <<fault>>]
            /\ ret' = r.val
            /\ st_errors' = r.errs
            /\ unclosed' \in UnclosedAfter(r.errs)
    /\ animal_id' = 0
    /\ pc' = "heifer_count"
    /\ UNCHANGED store

MainHeiferCount ==
    /\ pc = "heifer_count"
    /\ \E fault \in BOOLEAN :
        LET r == get_heifer_count(call.farm, fault)
        IN  /\ call' = [call EXCEPT !.op = "get_heifer_count", !.faults = <<fault>>]
            /\ ret' = r.val
            /\ st_errors' = r.errs
            /\ unclosed' \in UnclosedAfter(r.errs)
    /\ animal_id' = 0
    /\ pc' = "bull_count"
    /\ UNCHANGED store

MainBullCount ==
    /\ pc = "bull_count"
    /\ \E fault \in BOOLEAN :
        LET r == get_bull_count(call.farm, fault)
        IN  /\ call' = [call EXCEPT !.op = "get_bull_count", !.faults = <<fault>>]
            /\ ret' = r.val
            /\ st_errors' = r.errs
            /\ unclosed' \in UnclosedAfter(r.errs)
    /\ animal_id' = 0
    /\ pc' = "births"
    /\ UNCHANGED store

MainBirths ==
    /\ pc = "births"
    /\ \E fault \in BOOLEAN :
        LET r == get_recent_births_count(fault)
        IN  /\ call' = [call EXCEPT !.op = "get_recent_births_count", !.faults = <<fault>>]
            /\ ret' = r.val
            /\ st_errors' = r.errs
            /\ unclosed' \in UnclosedAfter(r.errs)
    /\ animal_id' = 0
    /\ pc' = "calf_tags"
    /\ UNCHANGED store

MainCalfTags ==
    /\ pc = "calf_tags"
    /\ \E fault \in BOOLEAN :
        LET r == get_recent_calf_tags(fault)
        IN  /\ call' = [call EXCEPT !.op = "get_recent_calf_tags", !.faults = <<fault>>]
            /\ ret' = r.val
            /\ st_errors' = r.errs
            /\ unclosed' \in UnclosedAfter(r.errs)
    /\ animal_id' = 0
    /\ pc' = "cull_count"
    /\ UNCHANGED store

MainCullCount ==
    /\ pc = "cull_count"
    /\ \E fault \in BOOLEAN :
        LET r == get_issue_count("Cull", fault)
        IN  /\ call' = [call EXCEPT !.op = "get_issue_count", !.faults = <<fault>>]
            /\ ret' = r.val
            /\ st_errors' = r.errs
            /\ unclosed' \in UnclosedAfter(r.errs)
    /\ animal_id' = 0
    /\ pc' = "sales"
    /\ UNCHANGED store

MainSales ==
    /\ pc = "sales"
    /\ \E fault \in BOOLEAN :
        LET r == get_issue_count("Sell", fault)
        IN  /\ call' = [call EXCEPT !.op = "get_issue_count", !.faults = <<fault>>]
            /\ ret' = r.val
            /\ st_errors' = r.errs
            /\ unclosed' \in UnclosedAfter(r.errs)
    /\ animal_id' = 0
    /\ pc' = "deaths"
    /\ UNCHANGED store

MainDeaths ==
    /\ pc = "deaths"
    /\ \E fault \in BOOLEAN :
        LET r == get_issue_count("Dead", fault)
        IN  /\ call' = [call EXCEPT !.op = "get_issue_count", !.faults = <<fault>>]
            /\ ret' = r.val
            /\ st_errors' = r.errs
            /\ unclosed' \in UnclosedAfter(r.errs)
    /\ animal_id' = 0
    /\ pc' = "top_sire"
    /\ UNCHANGED store

MainTopSire ==
    /\ pc = "top_sire"
    /\ \E fault \in BOOLEAN :
        \E r \in get_top_sire_3y(fault) :
            /\ call' = [call EXCEPT !.op = "get_top_sire_3y", !.faults = <<fault>>]
            /\ ret' = r.val
            /\ st_errors' = r.errs
            /\ unclosed' \in UnclosedAfter(r.errs)
    /\ animal_id' = 0
    /\ pc' = "top3_sire_usage"
    /\ UNCHANGED store

MainTop3SireUsage ==
    /\ pc = "top3_sire_usage"
    /\ \E fault \in BOOLEAN :
        \E r \in get_top3_sire_usage_3y(fault) :
            /\ call' = [call EXCEPT !.op = "get_top3_sire_usage_3y", !.faults = <<fault>>]
            /\ ret' = r.val
            /\ st_errors' = r.errs
            /\ unclosed' \in UnclosedAfter(r.errs)
    /\ animal_id' = 0
    /\ pc' = "avg_parity"
    /\ UNCHANGED store

MainAvgParity ==
    /\ pc = "avg_parity"
    /\ \E fault \in BOOLEAN :
        \E r \in get_average_parity(fault) :
            /\ call' = [call EXCEPT !.op = "get_average_parity", !.faults = <<fault>>]
            /\ ret' = r.val
            /\ st_errors' = r.errs
            /\ unclosed' \in UnclosedAfter(r.errs)
    /\ animal_id' = 0
    /\ pc' = "highest_parity"
    /\ UNCHANGED store

MainHighestParity ==
    /\ pc = "highest_parity"
    /\ \E fault \in BOOLEAN :
        \E r \in get_highest_parity_cow(fault) :
            /\ call' = [call EXCEPT !.op = "get_highest_parity_cow", !.faults = <<fault>>]
            /\ ret' = r.val
            /\ st_errors' = r.errs
            /\ unclosed' \in UnclosedAfter(r.errs)
    /\ animal_id' = 0
    /\ pc' = "freq_abortion"
    /\ UNCHANGED store

MainFreqAbortion ==
    /\ pc = "freq_abortion"
    /\ \E fault \in BOOLEAN :
        \E r \in get_frequent_abortion_cow(fault) :
            /\ call' = [call EXCEPT !.op = "get_frequent_abortion_cow", !.faults = <<fault>>]
            /\ ret' = r.val
            /\ st_errors' = r.errs
            /\ unclosed' \in UnclosedAfter(r.errs)
    /\ animal_id' = 0
    /\ pc' = "fig1"
    /\ UNCHANGED store

MainFig1 ==
    /\ pc = "fig1"
    /\ \E fault \in BOOLEAN :
        \E r \in generate_breeding_diagnosis_bar_chart(call.farm, call.status, fault) :
            /\ call' = [call EXCEPT !.op = "generate_breeding_diagnosis_bar_chart", !.faults = <<fault>>]
            /\ ret' = r.val
            /\ st_errors' = r.errs
            /\ unclosed' = r.unclosed
    /\ animal_id' = 0
    /\ pc' = "fig2"
    /\ UNCHANGED store

MainFig2 ==
    /\ pc = "fig2"
    /\ \E fault \in BOOLEAN :
        \E r \in generate_category_bar_chart(call.farm, call.status, fault) :
            /\ call' = [call EXCEPT !.op = "generate_category_bar_chart", !.faults = <<fault>>]
            /\ ret' = r.val
            /\ st_errors' = r.errs
            /\ unclosed' = r.unclosed
    /\ animal_id' = 0
    /\ pc' = "fig3"
    /\ UNCHANGED store

\* fig3: the TypeError of the rendering leaves main, no handler around it.
MainFig3 ==
    /\ pc = "fig3"
    /\ \E f1, f2 \in BOOLEAN :
        LET r == plot_farm_milk_yield_trend_filtered(call.farm, call.status, f1, f2)
        IN  /\ call' = [call EXCEPT !.op = "plot_farm_milk_yield_trend_filtered",
                                    !.faults = <<f1, f2>>]
            /\ ret' = r.val
            /\ st_errors' = r.errs
            /\ unclosed' \in UnclosedAfter(r.errs)
            /\ pc' = IF r.val.kind = "raise" THEN "crashed" ELSE "done"
    /\ animal_id' = 0
    /\ UNCHANGED store

\* The part of Init every specification shares: no operation called yet.
Idle ==
    /\ call = NoCall
    /\ ret = <<>>
    /\ st_errors = {}
    /\ unclosed = 0
    /\ animal_id = 0
    /\ pc = "idle"

(***************************************************************************)
(* SpecScope: scope resolution over any animals and issue tables.          *)
(***************************************************************************)
ScopeAnimalRows == {Animal(f, t, "F", NullText) : f \in Farms, t \in EarTags}

InitScope ==
    /\ animals \in AnimalTables(ScopeAnimalRows)
    /\ issue \in KSubsets(IssueRows, MaxEvents)
    /\ repro = {}
    /\ lactation = {}
    /\ milk_yield = {}
    /\ today = Ordinal(2024, 1, 25)
    /\ Idle

NextScope == CallGetFilteredEarTags \/ CallGetTotalAnimalsFiltered

SpecScope == InitScope /\ [][NextScope]_vars

\* The ear tags of the farm's animals, as a set.
FarmTags(farm) == {a.ear_tag : a \in {x \in animals : x.farm_name = farm}} \ {0}

\* The most recent Ownership Events of animal a (the events of maximum date).
LatestEvents(a) ==
    {i \in JoinedEvents(a) :
        \A k \in JoinedEvents(a) : DateTextGeq(i.event_date, k.event_date)}

\* The statuses the reference rule allows as a's effective status.
EffectiveStatuses(a) ==
    IF JoinedEvents(a) = {} THEN {"owned"}
    ELSE {Coalesce(i.event_status, "owned") : i \in LatestEvents(a)}

NoFault == \A i \in 1..Len(call.faults) : ~call.faults[i]

FilteredCall ==
    /\ call.op = "get_filtered_ear_tags"
    /\ NoFault

StrictlyAscending(s) == \A i \in 1..(Len(s) - 1) : s[i] < s[i + 1]

\* C2: for a status other than "Total", get_filtered_ear_tags returns exactly
\* the ear tags of the farm's animals whose effective status (the status of
\* the most recent Ownership Event, "owned" without events) is that status.
\* Events of one animal that share the latest date leave either status open.
C2_EffectiveStatusScope ==
    (FilteredCall /\ call.status # "Total") =>
        LET InFarm == {x \in animals : x.farm_name = call.farm /\ x.ear_tag # 0}
        IN  /\ \A a \in InFarm :
                   EffectiveStatuses(a) = {call.status} => a.ear_tag \in SeqToSet(ret)
            /\ \A a \in InFarm :
                   a.ear_tag \in SeqToSet(ret) => call.status \in EffectiveStatuses(a)

\* C6: get_filtered_ear_tags returns its ear tags in strictly ascending
\* order without repetition, and get_total_animals_filtered is the number
\* of distinct animals in scope.
C6_OrderedSet ==
    /\ FilteredCall => StrictlyAscending(ret)
    /\ (call.op = "get_total_animals_filtered" /\ NoFault) =>
           ret = Cardinality(SeqToSet(
                     get_filtered_ear_tags(call.farm, call.status, FALSE).val))

\* C7: every ear tag returned for a farm and a status is also returned for
\* that farm and "Total".
C7_SubsetOfTotal ==
    FilteredCall =>
        SeqToSet(ret) \subseteq
            SeqToSet(get_filtered_ear_tags(call.farm, "Total", FALSE).val)

\* A status call that returned some but not all of the farm's ear tags.
C7_Witness ==
    /\ FilteredCall
    /\ call.status # "Total"
    /\ ret # <<>>
    /\ SeqToSet(ret) # FarmTags(call.farm)

(***************************************************************************)
(* SpecAggr: the scope-based aggregations.  An aggregation reads           *)
(* milk_yield or repro, never both, so Init varies one of the two.         *)
(***************************************************************************)
ReproRow(id, bd, bull, par, preg, deliv, calv, calf) ==
    [animal_id |-> id, breeding_date |-> bd, bull_name |-> bull, parity |-> par,
     pregnancy_status |-> preg, delivery_status |-> deliv, calving_date |-> calv,
     calf_tag_number |-> calf]

Repro(id, bd, bull, preg, deliv, calv) ==
    ReproRow(id, bd, bull, NULL, preg, deliv, calv, NULL)

Milk(t, rd, v) ==
    [ear_tag |-> t, record_date |-> rd, record_year |-> rd.y, yield_value |-> v]

AggrAnimalRows == {Animal(f, t, "F", NullText) : f \in Farms, t \in {1, 2}}

AggrIssueRows ==
    [farm_name : {"Sunrise"}, ear_tag : {1}, event_status : {<<"Sell">>, <<"Dead">>},
     event_date : {DateText(2024, 1, 10)}]

AggrMilkRows ==
    {Milk(t, rd, v) : t \in {1, 2},
                      rd \in {DateText(2023, 12, 30), DateText(2024, 1, 10)},
                      v \in {NULL, <<3>>}}

AggrReproRows ==
    {Repro(id, NullText, NULL, NULL, deliv, NULL) :
        id \in {AnimalId("Sunrise", 1), AnimalId("Valley", 1)},
        deliv \in {NULL, <<"Abortion">>, <<"Delivery">>}}

InitAggr ==
    /\ animals \in AnimalTables(AggrAnimalRows)
    /\ issue \in KSubsets(AggrIssueRows, MaxEvents)
    /\ \/ milk_yield \in KSubsets(AggrMilkRows, MaxMilk) /\ repro = {}
       \/ milk_yield = {} /\ repro \in KSubsets(AggrReproRows, MaxRepro)
    /\ lactation = {}
    /\ today = Ordinal(2024, 1, 25)
    /\ Idle

NextAggr ==
    \/ CallGetFilteredEarTags
    \/ CallGetTotalAnimalsFiltered
    \/ CallTotalMilkYield
    \/ CallTotalLactationDays
    \/ CallMilkYieldByYear
    \/ CallAbortionCount

SpecAggr == InitAggr /\ [][NextAggr]_vars

\* The scope of the call's farm and status is empty in the store.
EmptyScope == get_filtered_ear_tags(call.farm, call.status, FALSE).val = <<>>

ScopeOps ==
    {"get_filtered_ear_tags", "get_total_animals_filtered",
     "get_farm_total_milk_yield_filtered", "get_farm_total_lactation_days_filtered",
     "get_farm_milk_yield_by_year_filtered", "get_farm_abortion_count_filtered"}

EmptyScopeResult(op) ==
    IF op \in {"get_filtered_ear_tags", "get_farm_milk_yield_by_year_filtered"}
    THEN <<>> ELSE 0

\* C8: when the resolved scope is empty (unknown farm, or no animal of the
\* farm matches the status), scope resolution returns the empty sequence,
\* the total count, total milk yield, total lactation days and abortion
\* count are 0, yield-by-year is the empty sequence, and no error is
\* reported.
C8_EmptyScopeDefaults ==
    (/\ call.op \in ScopeOps
     /\ EmptyScope
     /\ ~call.faults[1]) =>
        /\ ret = EmptyScopeResult(call.op)
        /\ st_errors = {}

\* An aggregation over an empty scope of a farm that has animals, while the
\* table it would read holds rows.
C8_Witness ==
    /\ call.op \in ScopeOps \ {"get_filtered_ear_tags", "get_total_animals_filtered"}
    /\ EmptyScope
    /\ st_errors = {}
    /\ \E a \in animals : a.farm_name = call.farm
    /\ milk_yield # {} \/ repro # {}

(***************************************************************************)
(* SpecBreeding: compute_breeding_diagnosis over animals and repro.        *)
(***************************************************************************)
ClassifierAnimalRows ==
    {Animal(ft[1], ft[2], g, NullText) :
        ft \in {<<"Sunrise", 1>>, <<"Valley", 1>>, <<"Sunrise", 2>>}, g \in Genders}

BreedingReproRows ==
    {Repro(id, bd, NULL, preg, NULL, calv) :
        id \in {AnimalId("Sunrise", 1), AnimalId("Sunrise", 2)},
        bd \in {DateText(2023, 1, 1), DateText(2023, 6, 1)},
        preg \in {NULL, <<"임신">>, <<" 임신">>, <<"미임신">>},
        calv \in {NULL, <<" ">>, <<"2023-03-10">>}}

InitBreeding ==
    /\ animals \in AnimalTables(ClassifierAnimalRows)
    /\ repro \in KSubsets(BreedingReproRows, MaxRepro)
    /\ issue = {}
    /\ lactation = {}
    /\ milk_yield = {}
    /\ today = Ordinal(2024, 1, 25)
    /\ Idle

NextBreeding == CallComputeBreedingDiagnosis

SpecBreeding == InitBreeding /\ [][NextBreeding]_vars

\* The reference rule of the breeding diagnosis, for an animal whose
\* maximum breeding date is held by the one record r.
HasCalvingDate(r) == r.calving_date \notin {NULL, <<"">>, <<" ">>}
IsPregnantMarker(r) == r.pregnancy_status \in {<<"임신">>, <<" 임신">>}

ReferenceDiagnosis(a) ==
    IF a.gender # "F" THEN "Open"
    ELSE IF \A r \in repro : r.animal_id # a.id THEN "Mating"
    ELSE LET r == CHOOSE x \in repro :
                      /\ x.animal_id = a.id
                      /\ \A k \in repro :
                            (k.animal_id = a.id /\ k # x) =>
                                ~DateTextGeq(k.breeding_date, x.breeding_date)
         IN  IF HasCalvingDate(r) THEN "Open"
             ELSE IF IsPregnantMarker(r) THEN "Pregnant"
             ELSE "Mating"

\* The ear tag of the call identifies one animal, and at most one of the
\* animal's records holds its maximum breeding date.
UniqueAnimal == Cardinality(AnimalsWithTag(call.ear_tag)) = 1
TheAnimal == CHOOSE a \in animals : a.ear_tag = call.ear_tag
UniqueLatestRecord(a) ==
    \A r, k \in repro :
        (r.animal_id = a.id /\ k.animal_id = a.id /\ r # k) =>
            r.breeding_date # k.breeding_date

\* C3: compute_breeding_diagnosis of an animal whose ear tag identifies it
\* uniquely and whose maximum breeding date is held by one record is "Open"
\* for a non-female, else "Mating" without records, else decided by the
\* record of maximum breeding date alone: "Open" with a calving date, else
\* "Pregnant" with the pregnant marker, else "Mating".  Calving date and
\* marker are read as the code reads them, after strip().
C3_BreedingDiagnosis ==
    (/\ call.op = "compute_breeding_diagnosis"
     /\ NoFault
     /\ UniqueAnimal
     /\ UniqueLatestRecord(TheAnimal)) =>
        ret = ReferenceDiagnosis(TheAnimal)

\* A female whose latest record makes her pregnant while an older record
\* carries a calving date.
C3_Witness ==
    /\ call.op = "compute_breeding_diagnosis"
    /\ NoFault
    /\ UniqueAnimal
    /\ UniqueLatestRecord(TheAnimal)
    /\ ret = "Pregnant"
    /\ \E r \in repro : r.animal_id = TheAnimal.id /\ HasCalvingDate(r)

(***************************************************************************)
(* SpecCategory: compute_animal_category over animals and lactation.       *)
(***************************************************************************)
Lactation(id, p) == [animal_id |-> id, period |-> p]

PeriodStarts == {DateText(2024, 1, 1), DateText(2024, 1, 5)}
PeriodEnds ==
    {DateText(2024, 1, 14), DateText(2024, 1, 15), DateText(2024, 3, 1),
     DateText(2024, 2, 30)}

PeriodTexts ==
    {NULL, <<<<>>>>, <<<<DateText(2024, 1, 1)>>>>,
     <<<<DateText(2024, 1, 1), SepText, JunkText>>>>,
     <<<<DateText(2024, 1, 1), SepText, DateText(2024, 1, 15), SepText,
         DateText(2024, 1, 15)>>>>}
    \cup {<<<<s, SepText, e>>>> : s \in PeriodStarts, e \in PeriodEnds}
    \cup {<<<<SepText, DateText(2024, 1, 15)>>>>}

LactationRows ==
    {Lactation(id, p) :
        id \in {AnimalId("Sunrise", 1), AnimalId("Valley", 1)}, p \in PeriodTexts}

InitCategory ==
    /\ animals \in AnimalTables({a \in ClassifierAnimalRows : a.gender = "F"})
    /\ lactation \in KSubsets(LactationRows, MaxLactation)
    /\ today \in {Ordinal(2024, 1, 25), Ordinal(2024, 1, 26)}
    /\ issue = {}
    /\ repro = {}
    /\ milk_yield = {}
    /\ Idle

NextCategory == CallComputeAnimalCategory

SpecCategory == InitCategory /\ [][NextCategory]_vars

\* The reference rule of the animal category.
IsStartEnd(p) ==
    /\ ~IsNull(p)
    /\ \E i \in 1..Len(p[1]) :
          /\ p[1][i] = SepText
          /\ \A j \in 1..Len(p[1]) : p[1][j] = SepText => j = i
          /\ i + 1 = Len(p[1])

EndOrdinal(p) == LET e == p[1][Len(p[1])] IN Ordinal(e.y, e.m, e.d)

EndParses(p) ==
    LET e == p[1][Len(p[1])]
    IN  e.kind = "date" /\ e.m \in 1..12 /\ e.d \in 1..DaysInMonth(e.y, e.m)

ReferenceCategory(a) ==
    LET P == {l.period : l \in {x \in lactation : x.animal_id = a.id}}
    IN  IF P = {} THEN "Fattening"
        ELSE LET p == CHOOSE x \in P : \A q \in P : PeriodLeq(q, x)
             IN  IF ~IsStartEnd(p) \/ ~EndParses(p) THEN "Fattening"
                 ELSE IF today - EndOrdinal(p) <= 10 THEN "Milking"
                 ELSE IF today - EndOrdinal(p) >= 11 THEN "Dry"
                 ELSE "none"

\* C4: compute_animal_category is "Fattening" when the animal has no
\* Lactation Period, or its maximum-valued period does not split as
\* "<start> ~ <end>", or the end date does not parse; otherwise it is
\* "Milking" exactly when gap = today - end date <= 10 (negative gaps
\* included) and "Dry" exactly when gap >= 11.  The animal is the row the
\* ear tag lookup fetched.
C4_AnimalCategory ==
    (/\ call.op = "compute_animal_category"
     /\ NoFault
     /\ animal_id # 0) =>
        \E a \in animals : a.id = animal_id /\ a.ear_tag = call.ear_tag
                              /\ ret = ReferenceCategory(a)

\* An animal with two periods, the maximum-valued one ending 10 days ago
\* ("Milking") although the other one ended 11 days ago.
C4_Witness ==
    /\ call.op = "compute_animal_category"
    /\ NoFault
    /\ animal_id # 0
    /\ ret = "Milking"
    /\ \E l, k \in lactation :
          /\ l.animal_id = animal_id /\ k.animal_id = animal_id
          /\ IsStartEnd(l.period) /\ EndParses(l.period)
          /\ today - EndOrdinal(l.period) = 10
          /\ IsStartEnd(k.period) /\ EndParses(k.period)
          /\ today - EndOrdinal(k.period) = 11

(***************************************************************************)
(* SpecHeads: get_heifer_count and get_bull_count over animals.            *)
(***************************************************************************)
BirthDates ==
    {NullText, EmptyText, BlankText, JunkText, DateText(2022, 1, 23),
     DateText(2022, 1, 24), DateText(2022, 2, 30), DateText(2024, 6, 1)}

HeadsAnimalRows ==
    {Animal(ft[1], ft[2], g, b) :
        ft \in {<<"Sunrise", 1>>, <<"Valley", 1>>, <<"Sunrise", 2>>},
        g \in {"F", "Bull", "M"}, b \in BirthDates}

InitHeads ==
    /\ animals \in AnimalTables(HeadsAnimalRows)
    /\ today \in {Ordinal(2024, 1, 25), Ordinal(2024, 1, 26)}
    /\ issue = {}
    /\ repro = {}
    /\ lactation = {}
    /\ milk_yield = {}
    /\ Idle

NextHeads == CallGetHeiferCount \/ CallGetBullCount

SpecHeads == InitHeads /\ [][NextHeads]_vars

\* The birth date is a calendar date written YYYY-MM-DD.
BirthDateParses(a) ==
    /\ a.birth_date.kind = "date"
    /\ a.birth_date.m \in 1..12
    /\ a.birth_date.d \in 1..DaysInMonth(a.birth_date.y, a.birth_date.m)

AgeInDays(a) ==
    today - Ordinal(a.birth_date.y, a.birth_date.m, a.birth_date.d)

Heifers(farm) ==
    {a \in animals : /\ a.farm_name = farm
                      /\ a.gender = "F"
                      /\ BirthDateParses(a)
                      /\ AgeInDays(a) < 732}

\* C9: get_heifer_count is the number of the farm's females whose birth
\* date parses and whose age is under 24 months of 30.5 days (fewer than
\* 732 days); an animal with a missing or unparseable birth date is not
\* counted, raises no error and leaves the count of the others unchanged.
\* get_bull_count counts exactly the farm's animals of gender "Bull".
C9_HeiferAndBullCount ==
    /\ (call.op = "get_heifer_count" /\ NoFault) =>
           /\ ret = Cardinality(Heifers(call.farm))
           /\ st_errors = {}
    /\ (call.op = "get_bull_count" /\ NoFault) =>
           ret = Cardinality({a \in animals : a.farm_name = call.farm} \
                             {a \in animals : a.gender # "Bull"})

\* A heifer aged exactly 731 days is counted beside a female of the same
\* farm whose birth date does not parse.
C9_Witness ==
    /\ call.op = "get_heifer_count"
    /\ NoFault
    /\ ret = 1
    /\ \E a, b \in animals :
          /\ a.farm_name = call.farm /\ b.farm_name = call.farm
          /\ a.gender = "F" /\ b.gender = "F"
          /\ BirthDateParses(a) /\ AgeInDays(a) = 731
          /\ ~BirthDateParses(b)

(***************************************************************************)
(* SpecSire: get_top_sire_3y over repro.                                   *)
(***************************************************************************)
SireReproRows ==
    {Repro(id, bd, bull, NULL, NULL, NULL) :
        id \in {AnimalId("Sunrise", 1), AnimalId("Sunrise", 2)},
        bd \in {DateText(2021, 1, 24), DateText(2021, 1, 25), DateText(2023, 5, 5)},
        bull \in {NULL, <<"">>, <<"Thor">>, <<"Odin">>}}

InitSire ==
    /\ repro \in KSubsets(SireReproRows, MaxSireRecords)
    /\ today \in {Ordinal(2024, 1, 25), Ordinal(2024, 1, 26)}
    /\ animals = {}
    /\ issue = {}
    /\ lactation = {}
    /\ milk_yield = {}
    /\ Idle

NextSire == CallGetTopSire3y

SpecSire == InitSire /\ [][NextSire]_vars

\* The Reproduction Records of the trailing 3 years (3 * 365 days), and
\* those of them that name bull b.
InWindow ==
    {r \in repro : /\ r.breeding_date.kind = "date"
                    /\ Ordinal(r.breeding_date.y, r.breeding_date.m, r.breeding_date.d)
                           >= today - 3 * 365}
Named(r) == r.bull_name \notin {NULL, <<"">>}
UsesOf(b) == Cardinality({r \in InWindow : r.bull_name = b})

\* C10: get_top_sire_3y returns a bull name with the maximum number of
\* Reproduction Records in the trailing 3 years, and the "-" sentinel only
\* when no named bull has a record in the window.  Stated for the case where
\* records without a bull name strictly outnumber those of every named bull:
\* a named bull has records in the window, so the result is not the sentinel.
C10_NamelessMajority ==
    (/\ call.op = "get_top_sire_3y"
     /\ NoFault
     /\ \E r \in InWindow : Named(r)
     /\ \A r \in InWindow : Named(r) => UsesOf(r.bull_name) < UsesOf(NULL)) =>
        ret # NoData

(***************************************************************************)
(* SpecTrend: plot_farm_milk_yield_trend_filtered over animals and         *)
(* milk_yield, on three current dates.                                     *)
(***************************************************************************)
TrendMilkRows ==
    {Milk(t, rd, v) : t \in {1},
                      rd \in {DateText(2024, 1, 5), DateText(2023, 12, 30),
                               DateText(2023, 2, 15), DateText(2022, 12, 30)},
                      v \in {NULL, <<3>>, <<4>>}}

InitTrend ==
    /\ animals \in AnimalTables(AggrAnimalRows)
    /\ milk_yield \in KSubsets(TrendMilkRows, MaxMilk)
    /\ today \in {Ordinal(2024, 1, 10), Ordinal(2024, 1, 25), Ordinal(2024, 1, 31)}
    /\ issue = {}
    /\ repro = {}
    /\ lactation = {}
    /\ Idle

NextTrend == CallPlotMilkYieldTrend

SpecTrend == InitTrend /\ [][NextTrend]_vars

\* The k-th of the 12 consecutive calendar months ending at the current one.
TrailingMonth(k) ==
    LET n == YearOf(today) * 12 + (MonthOf(today) - 1) - (12 - k)
    IN  <<n \div 12, (n % 12) + 1>>

\* The milk-yield records of month mth whose ear tag is in the call's scope.
ScopeRecordsOf(mth) ==
    {r \in milk_yield :
        /\ r.ear_tag \in SeqToSet(get_filtered_ear_tags(call.farm, call.status,
                                                         FALSE).val)
        /\ <<r.record_date.y, r.record_date.m>> = mth}

TrendCall ==
    /\ call.op = "plot_farm_milk_yield_trend_filtered"
    /\ NoFault

IsTrailingSeries(r) ==
    /\ r.kind # "None"
    /\ DOMAIN r.months = 1..12
    /\ DOMAIN r.values = 1..12
    /\ \A k \in 1..12 :
          /\ r.months[k] = TrailingMonth(k)
          /\ ScopeRecordsOf(r.months[k]) = {} => r.values[k] = <<0>>

\* C1: for every farm, status, current date and milk-yield data the series
\* has exactly 12 (label, total) entries, the labels being the 12 consecutive
\* calendar months ending at the current month in order, with total 0 for
\* every month without records in scope.  Stated for the calls whose scope
\* is not empty, the ones for which the code builds a series at all.
C1_TrailingSeriesOfScope == (TrendCall /\ ~EmptyScope) => IsTrailingSeries(ret)

(***************************************************************************)
(* SpecMain: one run of main over a small store.                           *)
(***************************************************************************)
MainAnimalRows ==
    {Animal("Sunrise", 1, "F", DateText(2023, 1, 1)),
     Animal("Sunrise", 2, "Bull", NullText),
     Animal("Valley", 1, "F", NullText)}

MainIssueRows ==
    {[farm_name |-> "Sunrise", ear_tag |-> 2, event_status |-> <<"Sell">>,
      event_date |-> DateText(2023, 12, 1)]}

MainMilkRows == {Milk(1, DateText(2024, 1, 5), v) : v \in {NULL, <<3>>}}

MainReproRows ==
    {ReproRow(AnimalId("Sunrise", 1), DateText(2023, 12, 1), <<"Thor">>, <<2>>,
              <<"임신">>, <<"Delivery">>, NULL, <<"C7">>),
     ReproRow(AnimalId("Valley", 1), DateText(2023, 6, 1), NULL, NULL,
              NULL, <<"abortion">>, <<"2023-03-10">>, NULL)}

MainLactationRows ==
    {Lactation(AnimalId("Sunrise", 1),
               <<<<DateText(2024, 1, 1), SepText, DateText(2024, 1, 15)>>>>),
     Lactation(AnimalId("Sunrise", 1), <<<<DateText(2024, 1, 1)>>>>)}

InitMain ==
    /\ animals \in AnimalTables(MainAnimalRows)
    /\ issue \in KSubsets(MainIssueRows, MaxEvents)
    /\ milk_yield \in KSubsets(MainMilkRows, MaxMilk)
    /\ repro \in KSubsets(MainReproRows, MaxRepro)
    /\ lactation \in KSubsets(MainLactationRows, MaxLactation)
    /\ today \in {Ordinal(2024, 1, 10)}
    /\ Idle

NextMain ==
    \/ MainSelect
    \/ MainTotalAnimals
    \/ MainHeiferCount
    \/ MainBullCount
    \/ MainBirths
    \/ MainCalfTags
    \/ MainCullCount
    \/ MainSales
    \/ MainDeaths
    \/ MainTopSire
    \/ MainTop3SireUsage
    \/ MainAvgParity
    \/ MainHighestParity
    \/ MainFreqAbortion
    \/ MainFig1
    \/ MainFig2
    \/ MainFig3

SpecMain == InitMain /\ [][NextMain]_vars

\* C5: no failure of a metric operation leaves that operation, and no
\* sequence of per-metric failures puts the report assembly in a crashed
\* state.
C5_NeverCrashed == pc # "crashed"

(***************************************************************************)
(* SpecConn: the connections of get_filtered_ear_tags,                     *)
(* compute_breeding_diagnosis and get_recent_births_count.                 *)
(***************************************************************************)
ConnReproRows ==
    {ReproRow(AnimalId("Sunrise", 1), bd, NULL, NULL, NULL, deliv, NULL, NULL) :
        bd \in {DateText(2023, 6, 1), DateText(2023, 12, 1)},
        deliv \in {NULL, <<"Delivery">>}}

InitConn ==
    /\ animals \in AnimalTables(ClassifierAnimalRows)
    /\ issue \in KSubsets(AggrIssueRows, MaxEvents)
    /\ repro \in KSubsets(ConnReproRows, MaxRepro)
    /\ today \in {Ordinal(2024, 1, 10)}
    /\ lactation = {}
    /\ milk_yield = {}
    /\ Idle

NextConn ==
    \/ CallGetFilteredEarTags
    \/ CallComputeBreedingDiagnosis
    \/ CallGetRecentBirthsCount

SpecConn == InitConn /\ [][NextConn]_vars

\* C11: after any operation returns, whether it succeeded, returned early
\* or caught a store error raised after the connection was opened, the
\* number of connections it opened and has not closed is 0.
C11_ConnectionsReleased == pc = "returned" => unclosed = 0

(***************************************************************************)
(* SpecIsolation: get_farm_abortion_count_filtered and the two classifiers *)
(* over stores that differ in one farm's animals.  The program never       *)
(* writes the store; EditOtherFarm is the herd-management side replacing   *)
(* the animals of one farm, with their repro and lactation rows, between   *)
(* two runs of the report.                                                 *)
(***************************************************************************)
IsolationAnimalRows == {Animal(f, 1, g, NullText) : f \in Farms, g \in {"F", "Bull"}}

IsolationReproRows ==
    {Repro(AnimalId(f, 1), DateText(2023, 6, 1), NULL, preg, deliv, NULL) :
        f \in Farms, preg \in {NULL, <<"임신">>}, deliv \in {NULL, <<"abortion">>}}

IsolationLactationRows ==
    {Lactation(AnimalId(f, 1), <<<<DateText(2024, 1, 1), SepText, e>>>>) :
        f \in Farms, e \in {DateText(2024, 1, 5), DateText(2024, 1, 20)}}

\* The ids of the animals of farm G.
IdsOfFarm(G) == {AnimalId(G, t) : t \in EarTags}

\* A store of the model: ear tags unique within a farm, every repro and
\* lactation row the row of an animal.
IsStore(A, R, L) ==
    /\ Cardinality(A) <= MaxAnimals
    /\ Cardinality(R) <= MaxRepro
    /\ Cardinality(L) <= MaxLactation
    /\ UniqueTags(A)
    /\ \A r \in R \cup L : r.animal_id \in {a.id : a \in A}

InitIsolation ==
    /\ animals \in SUBSET IsolationAnimalRows
    /\ repro \in SUBSET IsolationReproRows
    /\ lactation \in SUBSET IsolationLactationRows
    /\ IsStore(animals, repro, lactation)
    /\ today \in {Ordinal(2024, 1, 25)}
    /\ issue = {}
    /\ milk_yield = {}
    /\ Idle

EditOtherFarm ==
    /\ pc = "idle"
    /\ \E G \in Farms :
        \E AG \in SUBSET {a \in IsolationAnimalRows : a.farm_name = G},
           RG \in SUBSET {r \in IsolationReproRows : r.animal_id \in IdsOfFarm(G)},
           LG \in SUBSET {l \in IsolationLactationRows : l.animal_id \in IdsOfFarm(G)} :
            LET A == {a \in animals : a.farm_name # G} \cup AG
                R == {r \in repro : r.animal_id \notin IdsOfFarm(G)} \cup RG
                L == {l \in lactation : l.animal_id \notin IdsOfFarm(G)} \cup LG
            IN  /\ IsStore(A, R, L)
                /\ <<A, R, L>> # <<animals, repro, lactation>>
                /\ animals' = A
                /\ repro' = R
                /\ lactation' = L
    /\ UNCHANGED <<issue, milk_yield, today, call, ret, st_errors, unclosed,
                   animal_id, pc>>

NextIsolation ==
    \/ EditOtherFarm
    \/ CallAbortionCount
    \/ CallComputeBreedingDiagnosis
    \/ CallComputeAnimalCategory

SpecIsolation == InitIsolation /\ [][NextIsolation]_vars

\* The two stores of a step differ only in the animals of farm G and in the
\* repro and lactation rows of those animals.
DifferOnlyInFarm(G) ==
    /\ {a \in animals' : a.farm_name # G} = {a \in animals : a.farm_name # G}
    /\ {r \in repro' : r.animal_id \notin IdsOfFarm(G)}
           = {r \in repro : r.animal_id \notin IdsOfFarm(G)}
    /\ {l \in lactation' : l.animal_id \notin IdsOfFarm(G)}
           = {l \in lactation : l.animal_id \notin IdsOfFarm(G)}
    /\ UNCHANGED <<issue, milk_yield, today>>

\* The results the claim compares, for farm F and status S, without store
\* faults: the abortion count, and for each ear tag in F's scope the values
\* the two classifiers may return.
AbortionCountOf(F, S) == get_farm_abortion_count_filtered(F, S, FALSE, FALSE).val
DiagnosesOf(tag) == {o.val : o \in compute_breeding_diagnosis(tag, FALSE)}
CategoriesOf(tag) == {o.val : o \in compute_animal_category(tag, FALSE)}
ScopeOf(F, S) == SeqToSet(get_filtered_ear_tags(F, S, FALSE).val)

\* C12: for two stores that differ only in the animals of another farm G
\* and in their repro and lactation rows, the abortion count of (F, S) is
\* equal.
C12_AbortionCountIsolation ==
    [][\A G \in Farms : DifferOnlyInFarm(G) =>
          \A F \in Farms \ {G}, S \in StatusOptions :
              AbortionCountOf(F, S)' = AbortionCountOf(F, S)]_vars

\* C12, for the classifiers: compute_breeding_diagnosis and
\* compute_animal_category give equal results on every ear tag of F's scope.
C12_ClassifierIsolation ==
    [][\A G \in Farms : DifferOnlyInFarm(G) =>
          \A F \in Farms \ {G}, S \in StatusOptions :
              \A tag \in ScopeOf(F, S) :
                  /\ DiagnosesOf(tag)' = DiagnosesOf(tag)
                  /\ CategoriesOf(tag)' = CategoriesOf(tag)]_vars

====
